---- MODULE Spec2Model ----
(***************************************************************************)
(* Model of domain/simulation.py: the EMSSSimulator stepping engine        *)
(* (resort demand model, hydro/reservoir model, battery model, dispatch).  *)
(*                                                                         *)
(* Python floats are modelled as exact rationals <<n, d>> (d > 0, lowest   *)
(* terms), so an equality of the model is an equality "to floating-point   *)
(* tolerance" of the program.  Integers of the program are integers.       *)
(***************************************************************************)
EXTENDS Integers, Sequences, FiniteSets, TLC

\* config, time_step_hours     set by __init__ (simulation.py 59-60), never
\*                             changed afterwards
\* step, current_time          step counter and simulated time in minutes
\*                             (65-66, 120-121)
\* reservoir_level_m3, battery_soc                         (69-70)
\* standard_rooms_occupied .. lobby_customers              (73-77)
\* record    the dictionary returned by the last step_once() (105-123),
\*           NoRecord after construction and after reset()
\* locals    local variables of the last step_once() and of its _resort_step,
\*           _inflow_m3_per_step and _dispatch calls (81-98, 161-172, 282,
\*           367-387), NoLocals when record is NoRecord
\* first_run the records a caller collected from the simulator's first run
\*           (construction to the first reset()), used only by SpecRuns
\* call      position of the step_once() call in progress and its local
\*           variables so far (81-102), Idle between calls; used only by
\*           SpecPhases, which follows step_once() statement by statement
VARIABLES config, time_step_hours, step, current_time,
          reservoir_level_m3, battery_soc,
          standard_rooms_occupied, suite_rooms_occupied,
          restaurant_customers, spa_customers, lobby_customers,
          record, locals, first_run, call

vars == <<config, time_step_hours, step, current_time,
          reservoir_level_m3, battery_soc,
          standard_rooms_occupied, suite_rooms_occupied,
          restaurant_customers, spa_customers, lobby_customers,
          record, locals, first_run, call>>

-----------------------------------------------------------------------------
(* Exact rational arithmetic standing for Python float arithmetic.         *)

Abs(i) == IF i < 0 THEN -i ELSE i

RECURSIVE GCD(_, _)
GCD(a, b) == IF b = 0 THEN a ELSE GCD(b, a % b)

\* n/d in lowest terms with a positive denominator, g = gcd(|n|, |d|)
NormBy(n, d, g) ==
    IF d < 0 THEN <<-(n \div g), -(d \div g)>> ELSE <<n \div g, d \div g>>

Norm(n, d) == NormBy(n, d, GCD(Abs(n), Abs(d)))

Q(i) == <<i, 1>>

Fr(n, d) == Norm(n, d)

LCM(a, b) == (a \div GCD(a, b)) * b

\* a - b as an integer over the common denominator l
DiffOn(a, b, l) == a[1] * (l \div a[2]) - b[1] * (l \div b[2])

RNeg(a) == <<-a[1], a[2]>>

RSubOn(a, b, l) == Norm(DiffOn(a, b, l), l)

RSub(a, b) == RSubOn(a, b, LCM(a[2], b[2]))

RAdd(a, b) == RSub(a, RNeg(b))

\* a * b, cancelling g1 = gcd(|a.n|, b.d) and g2 = gcd(|b.n|, a.d) first
RMulBy(a, b, g1, g2) ==
    <<(a[1] \div g1) * (b[1] \div g2), (a[2] \div g2) * (b[2] \div g1)>>

RMul(a, b) ==
    IF a[1] = 0 \/ b[1] = 0 THEN <<0, 1>>
    ELSE RMulBy(a, b, GCD(Abs(a[1]), b[2]), GCD(Abs(b[1]), a[2]))

RInv(a) == IF a[1] < 0 THEN <<-a[2], -a[1]>> ELSE <<a[2], a[1]>>

\* a / b for b # 0
RDiv(a, b) == RMul(a, RInv(b))

RLt(a, b) == DiffOn(a, b, LCM(a[2], b[2])) < 0

RLe(a, b) == DiffOn(a, b, LCM(a[2], b[2])) <= 0

RGt(a, b) == RLt(b, a)

RGe(a, b) == RLe(b, a)

RMin(a, b) == IF RLe(a, b) THEN a ELSE b

RMax(a, b) == IF RGe(a, b) THEN a ELSE b

RMin3(a, b, c) == RMin(RMin(a, b), c)

RZero == <<0, 1>>

ROne == <<1, 1>>

\* Python int(x): truncation toward zero
RInt(a) == IF a[1] >= 0 THEN a[1] \div a[2] ELSE -((-a[1]) \div a[2])

Max(i, j) == IF i >= j THEN i ELSE j

Min(i, j) == IF i <= j THEN i ELSE j

-----------------------------------------------------------------------------
(* Bounds of the model.                                                    *)

\* step_once() is called at most MaxStep times between two resets
MaxStep == 6

\* datetime.now() returns one of the minutes 0..MaxNow
MaxNow == 1
MaxLongStep == 15
MaxBumpHour == 24

-----------------------------------------------------------------------------
(* SimulationConfig: the configurations the simulator is constructed with. *)
(* A configuration is the union of one option of each group below, or the  *)
(* pixel-resort configuration; every one satisfies min_reservoir_m3 <      *)
(* max_reservoir_m3, time_step_minutes > 0, round_trip_efficiency in       *)
(* (0,1], everything else non-negative.  The plants are sized so that the  *)
(* exact state stays within TLC's 32-bit integers for the steps explored.  *)

TimeOpts ==
    { [time_step_minutes |-> m, num_days |-> 7] : m \in {15, 60, 360} }

\* turbine and reservoir: a pond that floods, a pond that starts below its
\* minimum operating level, a pond with a big turbine
HydroOpts ==
    { [max_turbine_kw |-> Q(400), max_reservoir_m3 |-> Q(40),
       min_reservoir_m3 |-> Q(0), base_inflow_m3_per_hour |-> Q(150)],
      [max_turbine_kw |-> Q(200), max_reservoir_m3 |-> Q(100),
       min_reservoir_m3 |-> Q(90), base_inflow_m3_per_hour |-> Q(40)],
      [max_turbine_kw |-> Q(1200), max_reservoir_m3 |-> Q(100),
       min_reservoir_m3 |-> Q(40), base_inflow_m3_per_hour |-> Q(0)] }

BatteryOpts ==
    { [battery_capacity_kwh |-> Q(200), max_charge_kw |-> Q(80),
       max_discharge_kw |-> Q(80), round_trip_efficiency |-> Fr(9, 10)],
      [battery_capacity_kwh |-> Q(10), max_charge_kw |-> Q(80),
       max_discharge_kw |-> Q(80), round_trip_efficiency |-> Fr(9, 10)],
      [battery_capacity_kwh |-> Q(40), max_charge_kw |-> Q(20),
       max_discharge_kw |-> Q(20), round_trip_efficiency |-> Fr(1, 2)],
      [battery_capacity_kwh |-> Q(100), max_charge_kw |-> Q(50),
       max_discharge_kw |-> Q(50), round_trip_efficiency |-> Q(1)] }

GeneratorOpts ==
    { [max_generator_kw |-> g, fuel_cost_per_kwh |-> Fr(1, 5)] :
        g \in {Q(0), Q(30), Q(150)} }

\* the resort of the dataclass defaults
DefaultResort ==
    [num_standard_rooms |-> 20, num_suite_rooms |-> 5,
     standard_room_kw_per_room |-> Fr(5, 2), suite_room_kw_per_room |-> Q(4),
     restaurant_base_kw |-> Q(20), restaurant_kw_per_customer |-> Fr(1, 2),
     spa_base_kw |-> Q(10), spa_kw_per_customer |-> Fr(7, 10),
     lobby_base_kw |-> Q(8), lobby_kw_per_customer |-> Fr(1, 5)]

\* the resort of the pixel-resort front end
PixelResort ==
    [num_standard_rooms |-> 20, num_suite_rooms |-> 5,
     standard_room_kw_per_room |-> Q(3), suite_room_kw_per_room |-> Q(5),
     restaurant_base_kw |-> Q(25), restaurant_kw_per_customer |-> Fr(7, 10),
     spa_base_kw |-> Q(12), spa_kw_per_customer |-> Fr(9, 10),
     lobby_base_kw |-> Q(10), lobby_kw_per_customer |-> Fr(3, 10)]

\* resort layout and loads: no load at all, the dataclass defaults, the
\* pixel-resort values, a large resort with heavy base loads
ResortOpts ==
    { [num_standard_rooms |-> 0, num_suite_rooms |-> 0,
       standard_room_kw_per_room |-> Q(0), suite_room_kw_per_room |-> Q(0),
       restaurant_base_kw |-> Q(0), restaurant_kw_per_customer |-> Q(0),
       spa_base_kw |-> Q(0), spa_kw_per_customer |-> Q(0),
       lobby_base_kw |-> Q(0), lobby_kw_per_customer |-> Q(0)],
      DefaultResort,
      PixelResort,
      [num_standard_rooms |-> 40, num_suite_rooms |-> 2,
       standard_room_kw_per_room |-> Q(3), suite_room_kw_per_room |-> Q(5),
       restaurant_base_kw |-> Q(120), restaurant_kw_per_customer |-> Q(1),
       spa_base_kw |-> Q(60), spa_kw_per_customer |-> Q(1),
       lobby_base_kw |-> Q(20), lobby_kw_per_customer |-> Q(1)] }

\* the configuration the pixel-resort front end constructs
PixelConfig ==
    [time_step_minutes |-> 15, num_days |-> 7,
     max_turbine_kw |-> Q(200), max_reservoir_m3 |-> Q(100000),
     min_reservoir_m3 |-> Q(5000), base_inflow_m3_per_hour |-> Q(120),
     battery_capacity_kwh |-> Q(200), max_charge_kw |-> Q(80),
     max_discharge_kw |-> Q(80), round_trip_efficiency |-> Fr(9, 10),
     max_generator_kw |-> Q(150), fuel_cost_per_kwh |-> Fr(1, 5)]
    @@ PixelResort

SimulationConfig ==
    { t @@ h @@ b @@ g @@ r :
        t \in TimeOpts, h \in HydroOpts, b \in BatteryOpts,
        g \in GeneratorOpts, r \in ResortOpts }
    \cup {PixelConfig}

\* a small plant the other configuration sets vary
BaseConfig ==
    { c \in SimulationConfig :
        /\ c.time_step_minutes = 60
        /\ c.max_turbine_kw = Q(200) /\ c.max_reservoir_m3 = Q(100)
        /\ c.battery_capacity_kwh = Q(100)
        /\ c.max_generator_kw = Q(30) }

\* configurations the constructor is handed without complaint: SimulationConfig
\* is a plain dataclass, so any field values are stored; here a battery
\* of no capacity, a reservoir whose minimum is at or above its maximum, a
\* zero time step and an efficiency above 1
AnyConfig ==
    BaseConfig
    \cup { [c EXCEPT !.battery_capacity_kwh = Q(0)] : c \in BaseConfig }
    \cup { [c EXCEPT !.min_reservoir_m3 = c.max_reservoir_m3] : c \in BaseConfig }
    \cup { [c EXCEPT !.min_reservoir_m3 = Q(200)] : c \in BaseConfig }
    \cup { [c EXCEPT !.time_step_minutes = 0] : c \in BaseConfig }
    \cup { [c EXCEPT !.round_trip_efficiency = Fr(3, 2)] : c \in BaseConfig }

\* room layouts for long runs: more suites than the 20 % share fills, or
\* fewer suites than the share asks for
LongRunRooms == { <<19, 21>>, <<23, 19>>, <<40, 2>>, <<20, 5>> }

LongRunConfig ==
    { [c EXCEPT !.time_step_minutes = t,
                !.num_standard_rooms = r[1], !.num_suite_rooms = r[2]] :
        c \in { b \in BaseConfig : b.num_standard_rooms = 20
                                    /\ b.standard_room_kw_per_room = Q(3) },
        t \in {360, 720}, r \in LongRunRooms }

\* number of step_once() calls explored in a run
StepBound == IF config \in LongRunConfig THEN MaxLongStep ELSE MaxStep

-----------------------------------------------------------------------------
(* Values of the history variables before the first step_once().           *)

NoRecord == [step |-> -1]

NoLocals == [called |-> FALSE]

\* no step_once() call is in progress
Idle == [pc |-> "idle"]

\* step_once() raised instead of returning
Raised == [step |-> -2, raised |-> "ZeroDivisionError"]

HasRecord == record.step >= 0

-----------------------------------------------------------------------------
(* Demand model: EMSSSimulator._resort_step.                               *)

\* hour-of-day of the demand model, as a rational number of hours
ResortHour == Fr((step * config.time_step_minutes) % (24 * 60), 60)

TargetOcc(hour) ==
    IF RLe(Q(0), hour) /\ RLt(hour, Q(6)) THEN Fr(8, 10)
    ELSE IF RLe(Q(6), hour) /\ RLt(hour, Q(12)) THEN Fr(7, 10)
    ELSE IF RLe(Q(12), hour) /\ RLt(hour, Q(18)) THEN Fr(6, 10)
    ELSE IF RLe(Q(18), hour) /\ RLt(hour, Q(22)) THEN Fr(9, 10)
    ELSE Fr(85, 100)

MaxChangePerStep(total_rooms) == Max(1, total_rooms \div 20)

\* occupied rooms after moving towards the target by at most the rate limit
NewTotalRoomsOccupied(hour) ==
    LET total_rooms == config.num_standard_rooms + config.num_suite_rooms
        current_rooms_occupied == standard_rooms_occupied + suite_rooms_occupied
        target_rooms_occupied == RInt(RMul(Q(total_rooms), TargetOcc(hour)))
        max_change_per_step == MaxChangePerStep(total_rooms)
        delta0 == target_rooms_occupied - current_rooms_occupied
        delta == IF Abs(delta0) > max_change_per_step
                 THEN (IF delta0 > 0 THEN max_change_per_step
                                     ELSE -max_change_per_step)
                 ELSE delta0
    IN  Max(0, Min(total_rooms, current_rooms_occupied + delta))

SuiteTarget(new_total) ==
    IF new_total > 0
    THEN Min(RInt(RMul(Q(new_total), Fr(2, 10))), config.num_suite_rooms)
    ELSE 0

\* variant of StandardTarget: the remainder is not capped
StandardTargetUncapped(new_total) ==
    IF new_total > 0 THEN new_total - SuiteTarget(new_total) ELSE 0

StandardTarget(new_total) ==
    IF new_total > 0
    THEN Min(new_total - SuiteTarget(new_total), config.num_standard_rooms)
    ELSE 0

\* <<restaurant_frac, spa_frac, lobby_frac>> of the hour, before the cap
UnscaledFracs(hour) ==
    <<IF RLe(Q(7), hour) /\ RLe(hour, Q(10)) THEN Fr(4, 10)
      ELSE IF RLe(Q(18), hour) /\ RLe(hour, Q(22)) THEN Fr(5, 10)
      ELSE RZero,
      IF RLe(Q(14), hour) /\ RLe(hour, Q(18)) THEN Fr(25, 100) ELSE RZero,
      Fr(1, 10)>>

\* variant of ScaleFracs: the fractions are used as they are
ScaleFracsNever(fracs) == fracs

\* the cap at 0.8: fractions that sum above 0.8 are scaled down together
ScaleFracs(fracs) ==
    LET total_frac == RAdd(RAdd(fracs[1], fracs[2]), fracs[3])
        scale == RDiv(Fr(8, 10), total_frac)
    IN  IF RGt(total_frac, Fr(8, 10))
        THEN <<RMul(fracs[1], scale), RMul(fracs[2], scale),
               RMul(fracs[3], scale)>>
        ELSE fracs

\* <<restaurant_frac, spa_frac, lobby_frac>> after the cap at 0.8
AttendanceFracs(hour) == ScaleFracs(UnscaledFracs(hour))

\* the dictionary _resort_step returns; its occupancy fields are also the
\* values it stores in the simulator
ResortStep ==
    LET cfg == config
        hour == ResortHour
        new_total == NewTotalRoomsOccupied(hour)
        std == StandardTarget(new_total)
        suite == SuiteTarget(new_total)
        total_guests == std * 2 + suite * 3
        fracs == AttendanceFracs(hour)
        rest == RInt(RMul(Q(total_guests), fracs[1]))
        spa == RInt(RMul(Q(total_guests), fracs[2]))
        lobby == RInt(RMul(Q(total_guests), fracs[3]))
        room_kw == RAdd(RMul(Q(std), cfg.standard_room_kw_per_room),
                        RMul(Q(suite), cfg.suite_room_kw_per_room))
        restaurant_kw == RAdd(cfg.restaurant_base_kw,
                              RMul(Q(rest), cfg.restaurant_kw_per_customer))
        spa_kw == RAdd(cfg.spa_base_kw, RMul(Q(spa), cfg.spa_kw_per_customer))
        lobby_kw == RAdd(cfg.lobby_base_kw,
                         RMul(Q(lobby), cfg.lobby_kw_per_customer))
    IN  [total_demand_kw |-> RAdd(RAdd(RAdd(room_kw, restaurant_kw), spa_kw), lobby_kw),
         room_kw |-> room_kw,
         restaurant_kw |-> restaurant_kw,
         spa_kw |-> spa_kw,
         lobby_kw |-> lobby_kw,
         standard_rooms_occupied |-> std,
         suite_rooms_occupied |-> suite,
         restaurant_customers |-> rest,
         spa_customers |-> spa,
         lobby_customers |-> lobby,
         total_guests |-> total_guests,
         hour |-> hour]

-----------------------------------------------------------------------------
(* Hydro and reservoir: _inflow_m3_per_step, _hydro_power_kw,              *)
(* _update_reservoir.                                                      *)

\* Python's a & b on non-negative integers
RECURSIVE BitAnd(_, _)
BitAnd(a, b) ==
    IF a = 0 \/ b = 0 THEN 0
    ELSE (a % 2) * (b % 2) + 2 * BitAnd(a \div 2, b \div 2)

\* math.sin(2*pi*m/1440) for 0 <= m <= 1440, by Bhaskara's rational
\* approximation 4p/(648000 - p), p = m(720 - m), rounded to 1/100
SinDay(m) ==
    LET h == IF m <= 720 THEN m ELSE m - 720
        p == h * (720 - h)
        c == (400 * p + (648000 - p) \div 2) \div (648000 - p)
    IN  Fr(IF m <= 720 THEN c ELSE -c, 100)

\* minutes of the day the inflow model uses
InflowMinutes == BitAnd(step * config.time_step_minutes, 24 * 60)

\* variant of InflowM3PerStep: the hourly inflow is not scaled to the step
InflowM3PerHour ==
    RMul(config.base_inflow_m3_per_hour,
         RAdd(ROne, RMul(Fr(2, 10), SinDay(InflowMinutes))))

InflowM3PerStep ==
    LET base == config.base_inflow_m3_per_hour
        daily_factor == RAdd(ROne, RMul(Fr(2, 10), SinDay(InflowMinutes)))
        inflow_per_hour == RMul(base, daily_factor)
    IN  RMul(inflow_per_hour, time_step_hours)

\* variant of HydroPowerKw: fullness measured from an empty reservoir
HydroPowerKwFromEmpty(level) ==
    LET cfg == config
        fullness == RDiv(level, cfg.max_reservoir_m3)
    IN  IF RLe(level, RZero) THEN RZero
        ELSE RMul(RMax(RZero, RMin(fullness, ROne)), cfg.max_turbine_kw)

\* _hydro_power_kw, reading reservoir level `level`
HydroPowerKw(level) ==
    LET cfg == config
        fullness == RDiv(RSub(level, cfg.min_reservoir_m3),
                         RSub(cfg.max_reservoir_m3, cfg.min_reservoir_m3))
    IN  IF RLe(level, cfg.min_reservoir_m3) THEN RZero
        ELSE RMul(RMax(RZero, RMin(fullness, ROne)), cfg.max_turbine_kw)

\* m3 of water per kWh
WaterPerKwhM3 == Fr(1, 10)

\* variant of UpdateReservoir: the level is not floored at 0
UpdateReservoirNoFloor(level, hydro_kw) ==
    RSub(level, RMul(RMul(hydro_kw, time_step_hours), WaterPerKwhM3))

\* the reservoir level _update_reservoir stores, from level `level`
UpdateReservoir(level, hydro_kw) ==
    LET energy_kwh == RMul(hydro_kw, time_step_hours)
        water_used_m3 == RMul(energy_kwh, WaterPerKwhM3)
    IN  RMax(RZero, RSub(level, water_used_m3))

-----------------------------------------------------------------------------
(* Battery: _update_battery_soc.                                           *)

\* the state of charge _update_battery_soc stores
UpdateBatterySoc(battery_kw) ==
    LET cfg == config
        current_kwh == RMul(battery_soc, cfg.battery_capacity_kwh)
        delta_kwh == RMul(battery_kw, time_step_hours)
        new_kwh ==
            IF RGt(delta_kwh, RZero)
            THEN RMax(RZero, RSub(current_kwh,
                                  RDiv(delta_kwh, cfg.round_trip_efficiency)))
            ELSE IF RLt(delta_kwh, RZero)
            THEN RMin(cfg.battery_capacity_kwh,
                      RSub(current_kwh,
                           RMul(delta_kwh, cfg.round_trip_efficiency)))
            ELSE current_kwh
    IN  RMax(RZero, RMin(ROne, RDiv(new_kwh, cfg.battery_capacity_kwh)))

-----------------------------------------------------------------------------
(* Dispatch: _dispatch, _charge_battery_with_surplus,                      *)
(* _discharge_battery_to_meet_load.                                        *)

\* variant of ChargeKwhStored: the charge power limit is ignored
ChargeKwhStoredNoRateLimit(surplus_hydro_kw) ==
    RMin(RSub(config.battery_capacity_kwh,
              RMul(battery_soc, config.battery_capacity_kwh)),
         RMul(RMul(surplus_hydro_kw, time_step_hours),
              config.round_trip_efficiency))

\* energy (kWh) that goes into the battery from surplus_hydro_kw
ChargeKwhStored(surplus_hydro_kw) ==
    LET cfg == config
        current_kwh == RMul(battery_soc, cfg.battery_capacity_kwh)
        free_space_kwh == RSub(cfg.battery_capacity_kwh, current_kwh)
        max_charge_this_step_kwh == RMul(cfg.max_charge_kw, time_step_hours)
        available_kwh == RMul(surplus_hydro_kw, time_step_hours)
    IN  RMin3(free_space_kwh, max_charge_this_step_kwh,
              RMul(available_kwh, cfg.round_trip_efficiency))

\* variant of ChargeBatteryWithSurplus: the spill is what the surplus exceeds
\* the stored energy by, not the grid-side energy
ChargeBatteryWithSurplusStoredSpill(surplus_hydro_kw) ==
    LET cfg == config
        free_space_kwh == RSub(cfg.battery_capacity_kwh,
                               RMul(battery_soc, cfg.battery_capacity_kwh))
        charge_kwh_stored == ChargeKwhStored(surplus_hydro_kw)
        grid_energy_used_kwh == RDiv(charge_kwh_stored, cfg.round_trip_efficiency)
        battery_kw == RNeg(RDiv(grid_energy_used_kwh, time_step_hours))
        used_surplus_kw == RDiv(charge_kwh_stored, time_step_hours)
    IN  IF RLe(free_space_kwh, RZero) THEN <<RZero, surplus_hydro_kw>>
        ELSE IF RLe(charge_kwh_stored, RZero) THEN <<RZero, surplus_hydro_kw>>
        ELSE <<battery_kw, RMax(RZero, RSub(surplus_hydro_kw, used_surplus_kw))>>

\* variant of ChargeBatteryWithSurplus: nothing is spilled when the battery
\* takes no charge
ChargeBatteryWithSurplusNoSpillWhenFull(surplus_hydro_kw) ==
    LET cfg == config
        free_space_kwh == RSub(cfg.battery_capacity_kwh,
                               RMul(battery_soc, cfg.battery_capacity_kwh))
        charge_kwh_stored == ChargeKwhStored(surplus_hydro_kw)
        grid_energy_used_kwh == RDiv(charge_kwh_stored, cfg.round_trip_efficiency)
        battery_kw == RNeg(RDiv(grid_energy_used_kwh, time_step_hours))
    IN  IF RLe(free_space_kwh, RZero) THEN <<RZero, RZero>>
        ELSE IF RLe(charge_kwh_stored, RZero) THEN <<RZero, RZero>>
        ELSE <<battery_kw, RMax(RZero, RAdd(surplus_hydro_kw, battery_kw))>>

\* <<battery_kw, spilled_kw_from_surplus>>
ChargeBatteryWithSurplus(surplus_hydro_kw) ==
    LET cfg == config
        current_kwh == RMul(battery_soc, cfg.battery_capacity_kwh)
        free_space_kwh == RSub(cfg.battery_capacity_kwh, current_kwh)
        charge_kwh_stored == ChargeKwhStored(surplus_hydro_kw)
        grid_energy_used_kwh == RDiv(charge_kwh_stored, cfg.round_trip_efficiency)
        battery_kw == RNeg(RDiv(grid_energy_used_kwh, time_step_hours))
        used_surplus_kw == RDiv(grid_energy_used_kwh, time_step_hours)
        spilled_kw == RMax(RZero, RSub(surplus_hydro_kw, used_surplus_kw))
    IN  IF RLe(free_space_kwh, RZero) THEN <<RZero, surplus_hydro_kw>>
        ELSE IF RLe(charge_kwh_stored, RZero) THEN <<RZero, surplus_hydro_kw>>
        ELSE <<battery_kw, spilled_kw>>

\* variant of DischargeBatteryToMeetLoad: the stored energy does not limit
\* the discharge
DischargeBatteryIgnoringStored(remaining_kw) ==
    LET discharge_kwh == RMin(RMul(remaining_kw, time_step_hours),
                              RMul(config.max_discharge_kw, time_step_hours))
    IN  IF RLe(RMul(battery_soc, config.battery_capacity_kwh), RZero) THEN RZero
        ELSE IF RLe(discharge_kwh, RZero) THEN RZero
        ELSE RDiv(discharge_kwh, time_step_hours)

\* variant of DischargeBatteryToMeetLoad: only the stored energy limits the
\* discharge, the rating max_discharge_kw does not
DischargeBatteryNoRateLimit(remaining_kw) ==
    LET current_kwh == RMul(battery_soc, config.battery_capacity_kwh)
        discharge_kwh == RMin(RMul(remaining_kw, time_step_hours), current_kwh)
    IN  IF RLe(current_kwh, RZero) THEN RZero
        ELSE IF RLe(discharge_kwh, RZero) THEN RZero
        ELSE RDiv(discharge_kwh, time_step_hours)

\* variant of DischargeBatteryToMeetLoad: the energy of the step (kWh) is
\* returned as if it were power (kW)
DischargeBatteryEnergyAsPower(remaining_kw) ==
    LET current_kwh == RMul(battery_soc, config.battery_capacity_kwh)
        discharge_kwh ==
            RMin(RMul(remaining_kw, time_step_hours),
                 RMin(current_kwh,
                      RMul(config.max_discharge_kw, time_step_hours)))
    IN  IF RLe(current_kwh, RZero) THEN RZero
        ELSE IF RLe(discharge_kwh, RZero) THEN RZero
        ELSE discharge_kwh

\* battery discharge power (positive kW)
DischargeBatteryToMeetLoad(remaining_kw) ==
    LET cfg == config
        current_kwh == RMul(battery_soc, cfg.battery_capacity_kwh)
        max_discharge_this_step_kwh == RMul(cfg.max_discharge_kw, time_step_hours)
        possible_discharge_kwh == RMin(current_kwh, max_discharge_this_step_kwh)
        discharge_kwh == RMin(RMul(remaining_kw, time_step_hours),
                              possible_discharge_kwh)
    IN  IF RLe(current_kwh, RZero) THEN RZero
        ELSE IF RLe(discharge_kwh, RZero) THEN RZero
        ELSE RDiv(discharge_kwh, time_step_hours)

\* variant of HydroKw: all available hydro power is used
HydroKwAllAvailable(demand_kw, max_hydro_kw) == max_hydro_kw

\* variant of HydroKw: demand is met from hydro whatever is available
HydroKwAllDemand(demand_kw, max_hydro_kw) == demand_kw

\* step 1 of _dispatch: hydro used to meet demand
HydroKw(demand_kw, max_hydro_kw) == RMin(max_hydro_kw, demand_kw)

\* variant of SurplusHydroKw: the hydro power already used is not deducted
SurplusHydroKwWhole(max_hydro_kw, hydro_kw) == RMax(RZero, max_hydro_kw)

\* unused hydro capacity
SurplusHydroKw(max_hydro_kw, hydro_kw) ==
    RMax(RZero, RSub(max_hydro_kw, hydro_kw))

\* variant of GeneratorKw: the generator runs at its rating whenever needed
GeneratorKwFullRating(remaining) ==
    IF RGt(remaining, RZero) THEN config.max_generator_kw ELSE RZero

\* step 3 of _dispatch: generator output for the demand still remaining
GeneratorKw(remaining) ==
    IF RGt(remaining, RZero) THEN RMin(config.max_generator_kw, remaining)
    ELSE RZero

\* _dispatch from the point where hydro_kw is known; the result holds the
\* returned dictionary's five fields and the locals of the call
DispatchFrom(demand_kw, max_hydro_kw, hydro_kw, surplus_hydro_kw) ==
    LET remaining1 == RSub(demand_kw, hydro_kw)
        charged == IF RGt(surplus_hydro_kw, RZero)
                   THEN ChargeBatteryWithSurplus(surplus_hydro_kw)
                   ELSE <<RZero, RZero>>
        used_from_battery == IF RGt(remaining1, RZero)
                             THEN DischargeBatteryToMeetLoad(remaining1)
                             ELSE RZero
        remaining2 == RSub(remaining1, used_from_battery)
        generator_kw == GeneratorKw(remaining2)
    IN  [hydro_kw |-> hydro_kw,
         battery_kw |-> RAdd(charged[1], used_from_battery),
         generator_kw |-> generator_kw,
         spilled_kw |-> charged[2],
         unserved_kw |-> RMax(RZero, RSub(remaining2, generator_kw)),
         surplus_hydro_kw |-> surplus_hydro_kw,
         charge_kw |-> charged[1],
         used_from_battery |-> used_from_battery]

\* _dispatch: the five fields of the dictionary it returns, and its locals
\* surplus_hydro_kw, charge_kw (battery_kw after the charge branch) and
\* used_from_battery
Dispatch(demand_kw, max_hydro_kw) ==
    LET hydro_kw == HydroKw(demand_kw, max_hydro_kw)
    IN  DispatchFrom(demand_kw, max_hydro_kw, hydro_kw,
                     SurplusHydroKw(max_hydro_kw, hydro_kw))

-----------------------------------------------------------------------------
(* The simulator: construction, reset(), step_once().                      *)

\* datetime.now(), in minutes
Now == 0 .. MaxNow

\* variant of NextTime: the step length is taken as hours
NextTimeAsHours == current_time + 60 * config.time_step_minutes

\* current_time after a step: current_time + timedelta(minutes=...)
NextTime == current_time + config.time_step_minutes

\* variant of ResetState: the occupancy is not cleared
ResetStateKeepsOccupancy(now) ==
    /\ step' = 0
    /\ current_time' = now
    /\ reservoir_level_m3' = RMul(config.max_reservoir_m3, Fr(1, 2))
    /\ battery_soc' = Fr(1, 2)
    /\ UNCHANGED <<standard_rooms_occupied, suite_rooms_occupied,
                   restaurant_customers, spa_customers, lobby_customers>>

\* variant of ResetState: the battery keeps its charge
ResetStateKeepsBattery(now) ==
    /\ step' = 0
    /\ current_time' = now
    /\ reservoir_level_m3' = RMul(config.max_reservoir_m3, Fr(1, 2))
    /\ battery_soc' = battery_soc
    /\ standard_rooms_occupied' = 0
    /\ suite_rooms_occupied' = 0
    /\ restaurant_customers' = 0
    /\ spa_customers' = 0
    /\ lobby_customers' = 0

\* the state reset() establishes at wall-clock time now
ResetState(now) ==
    /\ step' = 0
    /\ current_time' = now
    /\ reservoir_level_m3' = RMul(config.max_reservoir_m3, Fr(1, 2))
    /\ battery_soc' = Fr(1, 2)
    /\ standard_rooms_occupied' = 0
    /\ suite_rooms_occupied' = 0
    /\ restaurant_customers' = 0
    /\ spa_customers' = 0
    /\ lobby_customers' = 0

\* the caller's collection of first-run records: not kept at all, or kept
\* from construction on
NotObserved == [observed |-> FALSE]

NoneYet == [observed |-> TRUE, closed |-> FALSE, records |-> <<>>]

\* the caller appends the record step_once() returned, during the first run
Collect(returned) ==
    IF first_run.observed /\ ~first_run.closed
    THEN [first_run EXCEPT !.records = Append(@, returned)]
    ELSE first_run

\* the first run ends at the first reset()
CloseFirstRun ==
    IF first_run.observed THEN [first_run EXCEPT !.closed = TRUE]
    ELSE first_run

\* EMSSSimulator(config) for a config of `configs`: __init__ stores the
\* config, derives time_step_hours and calls reset(); it checks nothing
Construct(configs, caller) ==
    /\ config \in configs
    /\ time_step_hours = Fr(config.time_step_minutes, 60)
    /\ step = 0
    /\ current_time \in Now
    /\ reservoir_level_m3 = RMul(config.max_reservoir_m3, Fr(1, 2))
    /\ battery_soc = Fr(1, 2)
    /\ standard_rooms_occupied = 0
    /\ suite_rooms_occupied = 0
    /\ restaurant_customers = 0
    /\ spa_customers = 0
    /\ lobby_customers = 0
    /\ record = NoRecord
    /\ locals = NoLocals
    /\ first_run = caller
    /\ call = Idle

Init == Construct(SimulationConfig, NotObserved)

Reset ==
    /\ call.pc = "idle"
    /\ \E now \in Now : ResetState(now)
    /\ record' = NoRecord
    /\ locals' = NoLocals
    /\ first_run' = CloseFirstRun
    /\ UNCHANGED <<config, time_step_hours, call>>

\* variant of StepRecord: battery_soc and reservoir_level_m3 are read before
\* the step's updates are applied
StepRecordBeforeUpdates(resort_state, dispatch, soc2, level2) ==
    [step |-> step,
     time |-> current_time,
     demand_kw |-> resort_state.total_demand_kw,
     hydro_kw |-> dispatch.hydro_kw,
     battery_kw |-> dispatch.battery_kw,
     generator_kw |-> dispatch.generator_kw,
     spilled_kw |-> dispatch.spilled_kw,
     unserved_kw |-> dispatch.unserved_kw,
     battery_soc |-> battery_soc,
     reservoir_level_m3 |-> reservoir_level_m3,
     resort |-> resort_state]

\* the dictionary step_once() returns: soc2 and level2 are battery_soc and
\* reservoir_level_m3 after _update_battery_soc and _update_reservoir
StepRecord(resort_state, dispatch, soc2, level2) ==
    [step |-> step,
     time |-> current_time,
     demand_kw |-> resort_state.total_demand_kw,
     hydro_kw |-> dispatch.hydro_kw,
     battery_kw |-> dispatch.battery_kw,
     generator_kw |-> dispatch.generator_kw,
     spilled_kw |-> dispatch.spilled_kw,
     unserved_kw |-> dispatch.unserved_kw,
     battery_soc |-> soc2,
     reservoir_level_m3 |-> level2,
     resort |-> resort_state]

StepOnce ==
    /\ call.pc = "idle"
    /\ step < StepBound
    /\ config.battery_capacity_kwh # RZero
    /\ \E resort_state \in {ResortStep}, inflow_m3 \in {InflowM3PerStep} :
       \E level1 \in {RMin(config.max_reservoir_m3,
                           RAdd(reservoir_level_m3, inflow_m3))} :
       \E max_hydro_kw \in {HydroPowerKw(level1)} :
       \E dispatch \in {Dispatch(resort_state.total_demand_kw, max_hydro_kw)} :
       \E soc2 \in {UpdateBatterySoc(dispatch.battery_kw)},
          level2 \in {UpdateReservoir(level1, dispatch.hydro_kw)} :
           /\ standard_rooms_occupied' = resort_state.standard_rooms_occupied
           /\ suite_rooms_occupied' = resort_state.suite_rooms_occupied
           /\ restaurant_customers' = resort_state.restaurant_customers
           /\ spa_customers' = resort_state.spa_customers
           /\ lobby_customers' = resort_state.lobby_customers
           /\ battery_soc' = soc2
           /\ reservoir_level_m3' = level2
           /\ record' = StepRecord(resort_state, dispatch, soc2, level2)
           /\ locals' = [called |-> TRUE,
                         inflow_m3 |-> inflow_m3,
                         level_start |-> reservoir_level_m3,
                         level_in |-> level1,
                         max_hydro_kw |-> max_hydro_kw,
                         soc_in |-> battery_soc,
                         surplus_hydro_kw |-> dispatch.surplus_hydro_kw,
                         charge_kw |-> dispatch.charge_kw,
                         used_from_battery |-> dispatch.used_from_battery,
                         inflow_minutes |-> InflowMinutes,
                         rooms_before |-> standard_rooms_occupied
                                          + suite_rooms_occupied,
                         new_total_rooms_occupied |->
                             NewTotalRoomsOccupied(resort_state.hour)]
    /\ step' = step + 1
    /\ current_time' = NextTime
    /\ first_run' = Collect(record')
    /\ UNCHANGED <<config, time_step_hours, call>>

\* step_once() on a battery of no capacity: _resort_step has stored the
\* occupancy and the inflow has been added when _update_battery_soc divides
\* by battery_capacity_kwh and raises ZeroDivisionError; nothing is returned
\* and step and current_time are not advanced
StepOnceRaises ==
    /\ config.battery_capacity_kwh = RZero
    /\ \E resort_state \in {ResortStep}, inflow_m3 \in {InflowM3PerStep} :
           /\ standard_rooms_occupied' = resort_state.standard_rooms_occupied
           /\ suite_rooms_occupied' = resort_state.suite_rooms_occupied
           /\ restaurant_customers' = resort_state.restaurant_customers
           /\ spa_customers' = resort_state.spa_customers
           /\ lobby_customers' = resort_state.lobby_customers
           /\ reservoir_level_m3' = RMin(config.max_reservoir_m3,
                                         RAdd(reservoir_level_m3, inflow_m3))
    /\ record' = Raised
    /\ locals' = NoLocals
    /\ UNCHANGED <<config, time_step_hours, step, current_time, battery_soc,
                   first_run, call>>

-----------------------------------------------------------------------------
(* step_once() statement by statement.  The call is single-threaded, so a  *)
(* run of the six phases below is one StepOnce.                            *)

\* line 82: resort_state = self._resort_step(), which stores the occupancy
ResortPhase ==
    /\ call.pc = "idle"
    /\ step < StepBound
    /\ config.battery_capacity_kwh # RZero
    /\ \E resort_state \in {ResortStep} :
           /\ standard_rooms_occupied' = resort_state.standard_rooms_occupied
           /\ suite_rooms_occupied' = resort_state.suite_rooms_occupied
           /\ restaurant_customers' = resort_state.restaurant_customers
           /\ spa_customers' = resort_state.spa_customers
           /\ lobby_customers' = resort_state.lobby_customers
           /\ call' = [pc |-> "inflow",
                       resort_state |-> resort_state,
                       rooms_before |-> standard_rooms_occupied
                                        + suite_rooms_occupied,
                       new_total_rooms_occupied |->
                           NewTotalRoomsOccupied(resort_state.hour),
                       level_start |-> reservoir_level_m3,
                       soc_in |-> battery_soc,
                       inflow_minutes |-> InflowMinutes,
                       inflow_m3 |-> RZero,
                       level_in |-> RZero,
                       max_hydro_kw |-> RZero,
                       dispatch |-> Idle]
    /\ UNCHANGED <<config, time_step_hours, step, current_time,
                   reservoir_level_m3, battery_soc, record, locals, first_run>>

\* lines 84-89: the inflow is added and the level clamped to the maximum
InflowPhase ==
    /\ call.pc = "inflow"
    /\ \E inflow_m3 \in {InflowM3PerStep} :
       \E level1 \in {RMin(config.max_reservoir_m3,
                           RAdd(reservoir_level_m3, inflow_m3))} :
           /\ reservoir_level_m3' = level1
           /\ call' = [call EXCEPT !.pc = "dispatch",
                                   !.inflow_m3 = inflow_m3,
                                   !.level_in = level1]
    /\ UNCHANGED <<config, time_step_hours, step, current_time, battery_soc,
                   standard_rooms_occupied, suite_rooms_occupied,
                   restaurant_customers, spa_customers, lobby_customers,
                   record, locals, first_run>>

\* variant of DispatchPhase: the charge or discharge is booked on the
\* battery while dispatching
DispatchPhaseBookingBattery ==
    /\ call.pc = "dispatch"
    /\ \E max_hydro_kw \in {HydroPowerKw(reservoir_level_m3)} :
       \E dispatch \in {Dispatch(call.resort_state.total_demand_kw,
                                  max_hydro_kw)} :
           /\ call' = [call EXCEPT !.pc = "update_battery",
                                   !.max_hydro_kw = max_hydro_kw,
                                   !.dispatch = dispatch]
           /\ battery_soc' = UpdateBatterySoc(dispatch.battery_kw)
    /\ UNCHANGED <<config, time_step_hours, step, current_time,
                   reservoir_level_m3,
                   standard_rooms_occupied, suite_rooms_occupied,
                   restaurant_customers, spa_customers, lobby_customers,
                   record, locals, first_run>>

\* lines 92-98: max_hydro_kw = self._hydro_power_kw(...) and
\* dispatch = self._dispatch(...); neither method assigns to self
DispatchPhase ==
    /\ call.pc = "dispatch"
    /\ \E max_hydro_kw \in {HydroPowerKw(reservoir_level_m3)} :
       \E dispatch \in {Dispatch(call.resort_state.total_demand_kw,
                                  max_hydro_kw)} :
           call' = [call EXCEPT !.pc = "update_battery",
                                !.max_hydro_kw = max_hydro_kw,
                                !.dispatch = dispatch]
    /\ UNCHANGED <<config, time_step_hours, step, current_time,
                   reservoir_level_m3, battery_soc,
                   standard_rooms_occupied, suite_rooms_occupied,
                   restaurant_customers, spa_customers, lobby_customers,
                   record, locals, first_run>>

\* line 101: self._update_battery_soc(dispatch["battery_kw"])
BatteryUpdatePhase ==
    /\ call.pc = "update_battery"
    /\ battery_soc' = UpdateBatterySoc(call.dispatch.battery_kw)
    /\ call' = [call EXCEPT !.pc = "update_reservoir"]
    /\ UNCHANGED <<config, time_step_hours, step, current_time,
                   reservoir_level_m3,
                   standard_rooms_occupied, suite_rooms_occupied,
                   restaurant_customers, spa_customers, lobby_customers,
                   record, locals, first_run>>

\* line 102: self._update_reservoir(dispatch["hydro_kw"])
ReservoirUpdatePhase ==
    /\ call.pc = "update_reservoir"
    /\ reservoir_level_m3' = UpdateReservoir(reservoir_level_m3,
                                             call.dispatch.hydro_kw)
    /\ call' = [call EXCEPT !.pc = "return"]
    /\ UNCHANGED <<config, time_step_hours, step, current_time, battery_soc,
                   standard_rooms_occupied, suite_rooms_occupied,
                   restaurant_customers, spa_customers, lobby_customers,
                   record, locals, first_run>>

\* lines 105-123: the record is built, step and current_time advance, the
\* record is returned
ReturnPhase ==
    /\ call.pc = "return"
    /\ record' = StepRecord(call.resort_state, call.dispatch, battery_soc,
                            reservoir_level_m3)
    /\ locals' = [called |-> TRUE,
                  inflow_m3 |-> call.inflow_m3,
                  level_start |-> call.level_start,
                  level_in |-> call.level_in,
                  max_hydro_kw |-> call.max_hydro_kw,
                  soc_in |-> call.soc_in,
                  surplus_hydro_kw |-> call.dispatch.surplus_hydro_kw,
                  charge_kw |-> call.dispatch.charge_kw,
                  used_from_battery |-> call.dispatch.used_from_battery,
                  inflow_minutes |-> call.inflow_minutes,
                  rooms_before |-> call.rooms_before,
                  new_total_rooms_occupied |-> call.new_total_rooms_occupied]
    /\ step' = step + 1
    /\ current_time' = NextTime
    /\ first_run' = Collect(record')
    /\ call' = Idle
    /\ UNCHANGED <<config, time_step_hours, reservoir_level_m3, battery_soc,
                   standard_rooms_occupied, suite_rooms_occupied,
                   restaurant_customers, spa_customers, lobby_customers>>

NextPhases ==
    \/ ResortPhase
    \/ InflowPhase
    \/ DispatchPhase
    \/ BatteryUpdatePhase
    \/ ReservoirUpdatePhase
    \/ ReturnPhase
    \/ Reset

SpecPhases == Init /\ [][NextPhases]_vars

\* math.cos(q * pi) for a rational q >= 0, by Bhaskara's rational
\* approximation cos(t * pi) = (1 - 4 t^2) / (1 + t^2) for -1/2 <= t <= 1/2,
\* exact at the multiples of 1/2 and of 1/3
CosPi(q) ==
    LET r == Norm(q[1] % (2 * q[2]), q[2])
        t == IF RLe(r, Fr(1, 2)) THEN r
             ELSE IF RLt(r, Fr(3, 2)) THEN RSub(r, ROne)
             ELSE RSub(r, Q(2))
        c == RDiv(RSub(ROne, RMul(Q(4), RMul(t, t))), RAdd(ROne, RMul(t, t)))
    IN  IF RLe(r, Fr(1, 2)) \/ RGe(r, Fr(3, 2)) THEN c ELSE RNeg(c)

\* EMSSSimulator._smooth_bump(hour, start, end), a static method
SmoothBump(hour, start, end) ==
    IF RLt(hour, start) \/ RLt(hour, end) THEN RZero
    ELSE RMul(Fr(1, 2),
              RSub(ROne, CosPi(RDiv(RSub(hour, start), RSub(end, start)))))

\* hours of the day a caller passes, in half hours
BumpHours == { Fr(h, 2) : h \in 0 .. 2 * MaxBumpHour }

\* <<start, end>> windows a caller passes, start < end
BumpWindows == { <<Q(7), Q(10)>>, <<Q(14), Q(18)>>, <<Q(18), Q(22)>>,
                 <<Fr(1, 2), Q(2)>> }

\* a call of _smooth_bump; the simulator is not touched
SmoothBumpCall ==
    /\ \E hour \in BumpHours, window \in BumpWindows :
           locals' = [called |-> TRUE,
                      hour |-> hour,
                      start |-> window[1],
                      end |-> window[2],
                      bump |-> SmoothBump(hour, window[1], window[2])]
    /\ UNCHANGED <<config, time_step_hours, step, current_time,
                   reservoir_level_m3, battery_soc, standard_rooms_occupied,
                   suite_rooms_occupied, restaurant_customers, spa_customers,
                   lobby_customers, record, first_run, call>>

Next == StepOnce \/ Reset

Spec == Init /\ [][Next]_vars

\* two runs of one simulator: the caller keeps the records of the first
InitRuns == Construct(SimulationConfig, NoneYet)

SpecRuns == InitRuns /\ [][Next]_vars

\* any configuration handed to the constructor
InitAnyConfig == Construct(AnyConfig, NotObserved)

NextAnyConfig == StepOnce \/ StepOnceRaises \/ Reset

SpecAnyConfig == InitAnyConfig /\ [][NextAnyConfig]_vars

\* calls of the static helper _smooth_bump
InitSmoothBump == Construct({PixelConfig}, NotObserved)

SpecSmoothBump == InitSmoothBump /\ [][SmoothBumpCall]_vars

\* long runs of a few room layouts
InitLongRun == Construct(LongRunConfig, NotObserved)

SpecLongRun == InitLongRun /\ [][Next]_vars

-----------------------------------------------------------------------------
(* Properties.  `record` is the dictionary the last step_once() returned   *)
(* and `locals` holds the locals of that call; both are cleared by reset().*)

\* battery discharge power of the last step (0 when charging)
DischargeKw == RMax(record.battery_kw, RZero)

\* grid-side charging power of the last step (0 when discharging)
ChargingKw == RMax(RNeg(record.battery_kw), RZero)

\* energy held by the battery when the last step was dispatched
StoredKwhIn == RMul(locals.soc_in, config.battery_capacity_kwh)

\* C1: in every reachable state 0 <= reservoir_level_m3 <= max_reservoir_m3
\* and 0 <= battery_soc <= 1.
C1_StateBounds ==
    /\ RLe(RZero, reservoir_level_m3)
    /\ RLe(reservoir_level_m3, config.max_reservoir_m3)
    /\ RLe(RZero, battery_soc)
    /\ RLe(battery_soc, ROne)

\* a step whose hydro generation would take more water than the reservoir
\* held, leaving it at 0 with the battery at one of its bounds
C1_Witness ==
    /\ HasRecord
    /\ RGt(RMul(RMul(record.hydro_kw, time_step_hours), WaterPerKwhM3),
           locals.level_in)
    /\ reservoir_level_m3 = RZero
    /\ battery_soc \in {RZero, ROne}

\* C2: discharge-side balance: for every record returned by step_once(),
\* hydro_kw + max(battery_kw, 0) + generator_kw + unserved_kw = demand_kw.
C2_DischargeBalance ==
    HasRecord =>
        RAdd(RAdd(RAdd(record.hydro_kw, DischargeKw), record.generator_kw),
             record.unserved_kw) = record.demand_kw

\* a step in which hydro, battery and generator all supply and demand is
\* still not met
C2_Witness ==
    /\ HasRecord
    /\ RGt(record.hydro_kw, RZero)
    /\ RGt(record.battery_kw, RZero)
    /\ RGt(record.generator_kw, RZero)
    /\ RGt(record.unserved_kw, RZero)

\* C3: charge-side balance: in every step the hydro surplus (available hydro
\* power minus hydro_kw) equals the grid-side charging power plus spilled_kw.
C3_ChargeBalance ==
    HasRecord =>
        RSub(locals.max_hydro_kw, record.hydro_kw)
            = RAdd(ChargingKw, record.spilled_kw)

\* a step that both charges the battery (with conversion losses) and spills
C3_Witness ==
    /\ HasRecord
    /\ RLt(record.battery_kw, RZero)
    /\ RGt(record.spilled_kw, RZero)
    /\ RLt(config.round_trip_efficiency, ROne)

\* C4: strict priority hydro > battery discharge > generator: battery
\* discharge > 0 implies hydro_kw is all the available hydro power;
\* generator_kw > 0 implies the discharge is at its limit
\* min(stored energy / step_hours, max_discharge_kw); unserved_kw > 0 implies
\* generator_kw = max_generator_kw.
C4_StrictPriority ==
    HasRecord =>
        /\ RGt(DischargeKw, RZero) => record.hydro_kw = locals.max_hydro_kw
        /\ RGt(record.generator_kw, RZero) =>
               DischargeKw = RMin(RDiv(StoredKwhIn, time_step_hours),
                                  config.max_discharge_kw)
        /\ RGt(record.unserved_kw, RZero) =>
               record.generator_kw = config.max_generator_kw

\* a step with demand left unserved in which the battery discharge was
\* limited by the energy it held and the generator ran
C4_Witness ==
    /\ HasRecord
    /\ RGt(DischargeKw, RZero)
    /\ RLt(RDiv(StoredKwhIn, time_step_hours), config.max_discharge_kw)
    /\ RGt(record.generator_kw, RZero)
    /\ RGt(record.unserved_kw, RZero)

\* C5: hydro surplus goes into the battery before it is spilled: spilled_kw
\* > 0 implies the energy stored by charging in that step (the rise of the
\* stored energy, which is the grid-side charging energy times the
\* efficiency) equals min(free battery capacity, max_charge_kw x step_hours).
C5_ChargeBeforeSpill ==
    HasRecord /\ RGt(record.spilled_kw, RZero) =>
        LET limit == RMin(RSub(config.battery_capacity_kwh, StoredKwhIn),
                          RMul(config.max_charge_kw, time_step_hours))
        IN  /\ RSub(RMul(battery_soc, config.battery_capacity_kwh),
                    StoredKwhIn) = limit
            /\ RMul(RMul(ChargingKw, time_step_hours),
                    config.round_trip_efficiency) = limit

\* a step that spills while charging at the charge power limit, the battery
\* having more free capacity than that
C5_Witness ==
    /\ HasRecord
    /\ RGt(record.spilled_kw, RZero)
    /\ RLt(record.battery_kw, RZero)
    /\ RLt(RMul(config.max_charge_kw, time_step_hours),
           RSub(config.battery_capacity_kwh, StoredKwhIn))

\* C6: within a step the battery is charge-only or discharge-only and never
\* charges from the generator: battery_kw < 0 implies hydro_kw = demand_kw,
\* generator_kw = 0, unserved_kw = 0 and -battery_kw <= available hydro -
\* hydro_kw; the charge branch and the discharge branch of _dispatch never
\* both contribute a non-zero amount.
C6_ChargeOrDischarge ==
    HasRecord =>
        /\ RLt(record.battery_kw, RZero) =>
               /\ record.hydro_kw = record.demand_kw
               /\ record.generator_kw = RZero
               /\ record.unserved_kw = RZero
               /\ RLe(RNeg(record.battery_kw),
                      RSub(locals.max_hydro_kw, record.hydro_kw))
        /\ ~(locals.charge_kw # RZero /\ locals.used_from_battery # RZero)

\* a step that charges the battery while the resort draws power
C6_Witness ==
    /\ HasRecord
    /\ RLt(record.battery_kw, RZero)
    /\ RGt(record.demand_kw, RZero)

\* C7: every dispatch result has 0 <= hydro_kw <= available hydro power <=
\* max_turbine_kw, 0 <= generator_kw <= max_generator_kw, spilled_kw >= 0 and
\* unserved_kw >= 0.
C7_DispatchRanges ==
    HasRecord =>
        /\ RLe(RZero, record.hydro_kw)
        /\ RLe(record.hydro_kw, locals.max_hydro_kw)
        /\ RLe(locals.max_hydro_kw, config.max_turbine_kw)
        /\ RLe(RZero, record.generator_kw)
        /\ RLe(record.generator_kw, config.max_generator_kw)
        /\ RLe(RZero, record.spilled_kw)
        /\ RLe(RZero, record.unserved_kw)

\* a step that uses all the available hydro power and the whole generator
\* and still leaves demand unserved
C7_Witness ==
    /\ HasRecord
    /\ RGt(record.hydro_kw, RZero)
    /\ record.hydro_kw = locals.max_hydro_kw
    /\ RGt(record.generator_kw, RZero)
    /\ record.generator_kw = config.max_generator_kw
    /\ RGt(record.unserved_kw, RZero)

\* C8 as stated: whenever dispatch runs with demand_kw = 0 the result has
\* hydro_kw = 0, battery_kw = 0, generator_kw = 0, unserved_kw = 0 and
\* spilled_kw equal to the full available hydro power, for every battery
\* state of charge.
C8_ZeroDemandAllSpilled ==
    HasRecord /\ record.demand_kw = RZero =>
        /\ record.hydro_kw = RZero
        /\ record.battery_kw = RZero
        /\ record.generator_kw = RZero
        /\ record.unserved_kw = RZero
        /\ record.spilled_kw = locals.max_hydro_kw

\* C8 amended: whenever dispatch runs with demand_kw = 0 the result has
\* hydro_kw = 0, generator_kw = 0, unserved_kw = 0 and battery_kw <= 0, and
\* the full available hydro power is split between charging and spillage
\* (spilled_kw - battery_kw = available hydro power); battery_kw = 0 and
\* spilled_kw is the full available hydro power when the state of charge is 1.
C8_ZeroDemand ==
    HasRecord /\ record.demand_kw = RZero =>
        /\ record.hydro_kw = RZero
        /\ record.generator_kw = RZero
        /\ record.unserved_kw = RZero
        /\ RLe(record.battery_kw, RZero)
        /\ RSub(record.spilled_kw, record.battery_kw) = locals.max_hydro_kw
        /\ locals.soc_in = ROne =>
               /\ record.battery_kw = RZero
               /\ record.spilled_kw = locals.max_hydro_kw

\* a step without demand in which the available hydro power charges the
\* battery
C8_Witness ==
    /\ HasRecord
    /\ record.demand_kw = RZero
    /\ RGt(locals.max_hydro_kw, RZero)
    /\ RLt(record.battery_kw, RZero)

\* C9 as stated: for every step_once() call made while reservoir_level_m3 is
\* at or below min_reservoir_m3, the returned record has hydro_kw = 0.
C9_NoHydroWhenCalledBelowMin ==
    HasRecord /\ RLe(locals.level_start, config.min_reservoir_m3) =>
        record.hydro_kw = RZero

\* C9 amended: for every step_once() call in which reservoir_level_m3, after
\* the step's inflow has been added, is at or below min_reservoir_m3, the
\* returned record has hydro_kw = 0.
C9_NoHydroBelowMin ==
    HasRecord /\ RLe(locals.level_in, config.min_reservoir_m3) =>
        record.hydro_kw = RZero

\* a step with demand whose reservoir, inflow included, is above empty and
\* not above the minimum operating level
C9_Witness ==
    /\ HasRecord
    /\ RLe(locals.level_in, config.min_reservoir_m3)
    /\ RGt(locals.level_in, RZero)
    /\ RGt(record.demand_kw, RZero)

\* C10: whenever a step is dispatched with battery_soc = 1 and available
\* hydro power greater than demand, spilled_kw is the whole surplus (available
\* hydro - hydro_kw), battery_kw = 0, and battery_soc is 1 after the step.
C10_FullBatterySpills ==
    HasRecord /\ locals.soc_in = ROne
              /\ RGt(locals.max_hydro_kw, record.demand_kw) =>
        /\ record.spilled_kw = RSub(locals.max_hydro_kw, record.hydro_kw)
        /\ record.battery_kw = RZero
        /\ battery_soc = ROne
        /\ record.battery_soc = ROne

\* a step dispatched with a full battery and more hydro power than demand
C10_Witness ==
    /\ HasRecord
    /\ locals.soc_in = ROne
    /\ RGt(locals.max_hydro_kw, record.demand_kw)
    /\ RGt(record.demand_kw, RZero)

-----------------------------------------------------------------------------
\* power the battery could deliver over the last step: limited by the
\* energy it held and by its discharge rating
PossibleDischargeKw ==
    RMin(RDiv(StoredKwhIn, time_step_hours), config.max_discharge_kw)

\* everything the three sources could deliver in the last step
SupplyLimitKw ==
    RAdd(RAdd(locals.max_hydro_kw, PossibleDischargeKw),
         config.max_generator_kw)

\* C11: when the demand exceeds available hydro power + possible battery
\* discharge + generator rating, unserved_kw is what is left of the demand
\* after hydro, battery discharge and generator, and it is positive; when
\* the demand does not exceed that sum, unserved_kw is 0.
C11_UnservedIffOverLimit ==
    HasRecord =>
        IF RGt(record.demand_kw, SupplyLimitKw)
        THEN /\ record.unserved_kw =
                    RSub(RSub(RSub(record.demand_kw, record.hydro_kw),
                              DischargeKw),
                         record.generator_kw)
             /\ RGt(record.unserved_kw, RZero)
        ELSE record.unserved_kw = RZero

\* demand above the limit, with the battery limited by its stored energy
C11_Witness ==
    /\ HasRecord
    /\ RGt(record.demand_kw, SupplyLimitKw)
    /\ RGt(PossibleDischargeKw, RZero)
    /\ RLt(PossibleDischargeKw, config.max_discharge_kw)
    /\ RGt(locals.max_hydro_kw, RZero)
    /\ RGt(config.max_generator_kw, RZero)

-----------------------------------------------------------------------------
\* the last record belongs to a later run and the first run got as far
LaterRunStep ==
    /\ first_run.observed
    /\ first_run.closed
    /\ HasRecord
    /\ record.step < Len(first_run.records)

\* the record the first run returned for the step of the last record
FirstRunRecord == first_run.records[record.step + 1]

\* C12 (as stated): for a fixed configuration, a later run of reset() and
\* N step_once() calls returns the same records as the first run, in every
\* field including the timestamp.
C12_RunsIdentical == LaterRunStep => record = FirstRunRecord

\* C12 (amended): a later run returns the same records as the first run in
\* every field except the timestamp; the timestamp of a record is the
\* wall-clock time of its run's reset() plus step x time_step_minutes, so
\* the timestamps of the two runs differ by the difference of their reset
\* times.
C12_RunsIdenticalButTime ==
    LaterRunStep =>
        /\ [record EXCEPT !.time = 0] = [FirstRunRecord EXCEPT !.time = 0]
        /\ record.time - FirstRunRecord.time =
               (current_time - step * config.time_step_minutes)
               - first_run.records[1].time

\* the third step of a later run that was reset at another wall-clock time
C12_Witness ==
    /\ LaterRunStep
    /\ record.step >= 2
    /\ record.time # FirstRunRecord.time
    /\ record.battery_kw # RZero

-----------------------------------------------------------------------------
\* C13: between two resets every step_once() increases step by exactly 1
\* and current_time by exactly time_step_minutes; step is never negative and
\* current_time - step x time_step_minutes (the time of the last reset) is
\* the same before and after every step_once().  A transition that leaves
\* step at a value other than 0 is a step_once().
C13_StepAndTime ==
    /\ [](step >= 0)
    /\ [][step' # 0 =>
            /\ step' = step + 1
            /\ current_time' = current_time + config.time_step_minutes
            /\ current_time' - step' * config.time_step_minutes
                  = current_time - step * config.time_step_minutes]_vars

\* four steps after a reset() at wall-clock minute 1
C13_Witness ==
    /\ HasRecord
    /\ step = 4
    /\ current_time = 1 + 4 * config.time_step_minutes

-----------------------------------------------------------------------------
\* the values reset() gives the mutable state, the timestamp aside
ResetValues ==
    /\ step = 0
    /\ reservoir_level_m3 = RMul(Fr(1, 2), config.max_reservoir_m3)
    /\ battery_soc = Fr(1, 2)
    /\ standard_rooms_occupied = 0
    /\ suite_rooms_occupied = 0
    /\ restaurant_customers = 0
    /\ spa_customers = 0
    /\ lobby_customers = 0

\* C14: reset() in any reachable state yields step 0, the reservoir at half
\* of max_reservoir_m3, battery_soc 0.5 and all occupancy and customer
\* counts 0, and leaves config and time_step_hours unchanged; a reset() of
\* a state that was just reset changes nothing but the timestamp.  A
\* transition into a state without a returned record is a reset().
C14_Reset ==
    /\ [][record' = NoRecord =>
            /\ ResetValues'
            /\ config' = config
            /\ time_step_hours' = time_step_hours]_vars
    /\ [][(record = NoRecord /\ record' = NoRecord) =>
            UNCHANGED <<config, time_step_hours, step, reservoir_level_m3,
                        battery_soc, standard_rooms_occupied,
                        suite_rooms_occupied, restaurant_customers,
                        spa_customers, lobby_customers, locals>>]_vars

\* just after a reset() that followed three steps which had filled rooms and
\* moved the battery and the reservoir
C14_Witness ==
    /\ first_run.observed
    /\ first_run.closed
    /\ Len(first_run.records) >= 3
    /\ first_run.records[3].resort.standard_rooms_occupied > 0
    /\ first_run.records[3].battery_soc # Fr(1, 2)
    /\ first_run.records[3].reservoir_level_m3
          # RMul(Fr(1, 2), config.max_reservoir_m3)
    /\ record = NoRecord

-----------------------------------------------------------------------------
\* the configuration invariants: min_reservoir_m3 < max_reservoir_m3,
\* time_step_minutes > 0, round_trip_efficiency in (0, 1], the other numeric
\* options non-negative
ValidConfig(cfg) ==
    /\ RLt(cfg.min_reservoir_m3, cfg.max_reservoir_m3)
    /\ cfg.time_step_minutes > 0
    /\ RGt(cfg.round_trip_efficiency, RZero)
    /\ RLe(cfg.round_trip_efficiency, ROne)
    /\ \A f \in {"max_turbine_kw", "max_reservoir_m3", "min_reservoir_m3",
                  "base_inflow_m3_per_hour", "battery_capacity_kwh",
                  "max_charge_kw", "max_discharge_kw", "max_generator_kw",
                  "fuel_cost_per_kwh", "standard_room_kw_per_room",
                  "suite_room_kw_per_room", "restaurant_base_kw",
                  "restaurant_kw_per_customer", "spa_base_kw",
                  "spa_kw_per_customer", "lobby_base_kw",
                  "lobby_kw_per_customer"} : RGe(cfg[f], RZero)
    /\ cfg.num_days >= 0
    /\ cfg.num_standard_rooms >= 0
    /\ cfg.num_suite_rooms >= 0

\* C15: for every configuration that satisfies the configuration invariants
\* and in every reachable state, step_once() returns a record and does not
\* raise.
C15_StepNeverRaises == ValidConfig(config) => record # Raised

\* C16: a simulator constructed from a configuration that breaks an
\* invariant (min_reservoir_m3 >= max_reservoir_m3, time_step_minutes <= 0,
\* round_trip_efficiency outside (0, 1]) does not exist: construction has
\* failed, so no step_once() ever returns a record for such a configuration.
C16_InvalidConfigRejected == HasRecord => ValidConfig(config)

-----------------------------------------------------------------------------
\* the first step_once() of the simulator the pixel-resort front end builds
FirstPixelStep ==
    /\ config = PixelConfig
    /\ HasRecord
    /\ record.step = 0

\* C17 (as stated): with the pixel-resort plant the first step_once()
\* returns hydro_kw equal to the available hydro power
\* (50000 - 5000) / (100000 - 5000) x 200 kW and the rest of the demand is
\* covered by battery discharge and generator (battery_kw >= 0).
C17_FirstStepUsesAllHydro ==
    FirstPixelStep =>
        /\ record.hydro_kw = RMul(Fr(50000 - 5000, 100000 - 5000), Q(200))
        /\ RGe(record.battery_kw, RZero)

\* C17 (amended): with the pixel-resort plant the first step_once() adds
\* the inflow of 30 m3 first, so the available hydro power is
\* (50030 - 5000) / 95000 x 200 = 94.8 kW; the demand of step 0 is 50 kW
\* (one standard room and the three base loads), hydro_kw equals the demand,
\* the surplus of 44.8 kW charges the battery (battery_kw = -44.8), and
\* generator_kw, spilled_kw and unserved_kw are 0.
C17_FirstStepHydroCoversDemand ==
    FirstPixelStep =>
        /\ locals.level_in = Q(50030)
        /\ locals.max_hydro_kw = Fr(948, 10)
        /\ record.demand_kw = Q(50)
        /\ record.hydro_kw = Q(50)
        /\ record.battery_kw = Fr(-448, 10)
        /\ record.generator_kw = RZero
        /\ record.spilled_kw = RZero
        /\ record.unserved_kw = RZero

\* the first step of the pixel-resort plant, the battery charging
C17_Witness == FirstPixelStep /\ RLt(record.battery_kw, RZero)

-----------------------------------------------------------------------------
\* C18: in every reachable state the occupied standard rooms are between 0
\* and num_standard_rooms, the occupied suites between 0 and num_suite_rooms,
\* and the restaurant, spa and lobby customer counts are non-negative
\* integers.
C18_OccupancyBounds ==
    /\ standard_rooms_occupied \in 0 .. config.num_standard_rooms
    /\ suite_rooms_occupied \in 0 .. config.num_suite_rooms
    /\ restaurant_customers \in Nat
    /\ spa_customers \in Nat
    /\ lobby_customers \in Nat

\* the cap on standard rooms binds: the rate-limited total asks for more
\* standard rooms than there are, with customers in the restaurant
C18_Witness ==
    /\ HasRecord
    /\ locals.new_total_rooms_occupied - suite_rooms_occupied
          > config.num_standard_rooms
    /\ standard_rooms_occupied = config.num_standard_rooms
    /\ suite_rooms_occupied > 0
    /\ restaurant_customers > 0

-----------------------------------------------------------------------------
\* rooms in the resort
TotalRooms == config.num_standard_rooms + config.num_suite_rooms

\* occupied rooms stored by the last step
RoomsAfter == standard_rooms_occupied + suite_rooms_occupied

\* target of the last step: floor(total_rooms x ratio of its hour)
RoomsTarget == RInt(RMul(Q(TotalRooms), TargetOcc(record.resort.hour)))

\* C19: the total of occupied rooms stored after a step differs from the
\* total before the step by at most max(1, total_rooms // 20) and is not
\* farther from the step's target than the total before.
C19_StoredTotalTowardsTarget ==
    HasRecord =>
        /\ Abs(RoomsAfter - locals.rooms_before) <= Max(1, TotalRooms \div 20)
        /\ Abs(RoomsAfter - RoomsTarget)
              <= Abs(locals.rooms_before - RoomsTarget)

-----------------------------------------------------------------------------
\* C20: in every step the time of day the inflow model uses is
\* ((step x time_step_minutes) mod 1440) / 60 hours, the hour of day the
\* demand model uses in that step.
C20_InflowHourIsHourOfDay ==
    HasRecord =>
        /\ Fr(locals.inflow_minutes, 60)
              = Fr((record.step * config.time_step_minutes) % 1440, 60)
        /\ Fr(locals.inflow_minutes, 60) = record.resort.hour

-----------------------------------------------------------------------------
\* sum of three fractions
FracSum(fracs) == RAdd(RAdd(fracs[1], fracs[2]), fracs[3])

\* customers in the three shared areas after the last step
SharedAreaCustomers ==
    record.resort.restaurant_customers + record.resort.spa_customers
    + record.resort.lobby_customers

\* C21: in every step the three attendance fractions used sum to at most
\* 0.8; they differ from the unscaled fractions exactly when the unscaled sum
\* exceeds 0.8, and are then the unscaled ones in proportion, summing to 0.8;
\* the customers of the three shared areas are together at most 0.8 x
\* total_guests, hence at most total_guests = 2 x standard + 3 x suite rooms
\* occupied.
C21_AttendanceCapped ==
    HasRecord =>
        \E raw \in {UnscaledFracs(record.resort.hour)},
           used \in {AttendanceFracs(record.resort.hour)} :
            /\ RLe(FracSum(used), Fr(8, 10))
            /\ (used # raw) <=> RGt(FracSum(raw), Fr(8, 10))
            /\ RGt(FracSum(raw), Fr(8, 10)) =>
                   /\ FracSum(used) = Fr(8, 10)
                   /\ \A i \in 1 .. 3 :
                          RMul(used[i], FracSum(raw)) = RMul(raw[i], Fr(8, 10))
            /\ 10 * SharedAreaCustomers <= 8 * record.resort.total_guests
            /\ SharedAreaCustomers <= record.resort.total_guests
            /\ record.resort.total_guests =
                   2 * record.resort.standard_rooms_occupied
                   + 3 * record.resort.suite_rooms_occupied

\* a step at 18:00, when restaurant, spa and lobby together ask for 0.85 of
\* the guests, with customers in all three areas
C21_Witness ==
    /\ HasRecord
    /\ RGt(FracSum(UnscaledFracs(record.resort.hour)), Fr(8, 10))
    /\ record.resort.restaurant_customers > 0
    /\ record.resort.spa_customers > 0
    /\ record.resort.lobby_customers > 0

-----------------------------------------------------------------------------
\* C23: the first step_once() after a reset returns a record with step 0
\* and the reset time; every further step_once() returns a record whose step
\* is 1 higher and whose time is time_step_minutes later than those of the
\* record before, so the k-th record has step k - 1 and time reset time +
\* (k - 1) x time_step_minutes; the record's battery_soc and
\* reservoir_level_m3 are those of the simulator after the step.
C23_RecordOfKthStep ==
    /\ [][(~HasRecord /\ HasRecord') =>
            /\ record'.step = 0
            /\ record'.time = current_time]_vars
    /\ [][(HasRecord /\ HasRecord') =>
            /\ record'.step = record.step + 1
            /\ record'.time = record.time + config.time_step_minutes]_vars
    /\ [](HasRecord =>
            /\ record.battery_soc = battery_soc
            /\ record.reservoir_level_m3 = reservoir_level_m3)

\* the fourth step_once() after a reset() at wall-clock minute 1, a step in
\* which battery and reservoir were both changed by the updates
C23_Witness ==
    /\ HasRecord
    /\ record.step = 3
    /\ record.time = 1 + 3 * config.time_step_minutes
    /\ record.battery_soc # locals.soc_in
    /\ record.reservoir_level_m3 # locals.level_in

-----------------------------------------------------------------------------
\* energy taken out of the store for the discharge of the last step
DischargeKwhRemoved ==
    RDiv(RMul(DischargeKw, time_step_hours), config.round_trip_efficiency)

\* C24: in every step in which the battery discharges, the energy stored
\* before the step is at least discharge_kw x step_hours / efficiency, and
\* the state of charge drops by exactly that energy / capacity (the clamp at
\* zero does not bind).
C24_DischargeWithinStored ==
    (HasRecord /\ RGt(record.battery_kw, RZero)) =>
        /\ RGe(StoredKwhIn, DischargeKwhRemoved)
        /\ RSub(locals.soc_in, record.battery_soc)
              = RDiv(DischargeKwhRemoved, config.battery_capacity_kwh)

-----------------------------------------------------------------------------
\* C25 (as stated): in every step -max_charge_kw <= battery_kw <=
\* max_discharge_kw.
C25_BatteryWithinRatings ==
    HasRecord =>
        /\ RLe(RNeg(config.max_charge_kw), record.battery_kw)
        /\ RLe(record.battery_kw, config.max_discharge_kw)

\* C25 (amended): in every step
\* -max_charge_kw / round_trip_efficiency <= battery_kw <= max_discharge_kw:
\* the rating max_charge_kw limits the power stored, and the charging power
\* reported is the power stored divided by the efficiency.
C25_BatteryWithinRatingsGridSide ==
    HasRecord =>
        /\ RLe(RNeg(RDiv(config.max_charge_kw, config.round_trip_efficiency)),
               record.battery_kw)
        /\ RLe(RMul(ChargingKw, config.round_trip_efficiency),
               config.max_charge_kw)
        /\ RLe(record.battery_kw, config.max_discharge_kw)

\* a step that charges at max_charge_kw / efficiency, above max_charge_kw
C25_Witness ==
    /\ HasRecord
    /\ RLt(config.round_trip_efficiency, ROne)
    /\ ChargingKw = RDiv(config.max_charge_kw, config.round_trip_efficiency)
    /\ RGt(ChargingKw, config.max_charge_kw)

-----------------------------------------------------------------------------
\* C26: in every step with hydro_kw > 0 the reservoir level after depletion
\* is still at or above min_reservoir_m3, and the water the step uses is
\* held by the reservoir (the floor at 0 does not bind).
C26_WaterAboveMin ==
    (HasRecord /\ RGt(record.hydro_kw, RZero)) =>
        /\ RGe(record.reservoir_level_m3, config.min_reservoir_m3)
        /\ RGe(locals.level_in,
               RMul(RMul(record.hydro_kw, time_step_hours), WaterPerKwhM3))

-----------------------------------------------------------------------------
\* the last call was a call of _smooth_bump
BumpCalled == "bump" \in DOMAIN locals

\* C27: _smooth_bump(hour, start, end) with start < end returns 0 for every
\* hour outside [start, end] and returns a non-zero value only for an hour
\* inside [start, end].
C27_BumpZeroOutsideWindow ==
    BumpCalled =>
        /\ (RLt(locals.hour, locals.start) \/ RGt(locals.hour, locals.end))
              => locals.bump = RZero
        /\ locals.bump # RZero
              => (RLe(locals.start, locals.hour) /\ RLe(locals.hour, locals.end))

-----------------------------------------------------------------------------
\* a transition between two states without a call in progress is a reset()
IsReset == call.pc = "idle" /\ call'.pc = "idle"

\* C22: the statements of step_once() that compute the available hydro
\* power and call _dispatch leave battery_soc, reservoir_level_m3, step,
\* current_time and the occupancy counts unchanged; battery_soc changes only
\* in _update_battery_soc or in reset(), reservoir_level_m3 only in the
\* inflow update, in _update_reservoir or in reset().
C22_DispatchLeavesState ==
    /\ [][call.pc = "dispatch" =>
            UNCHANGED <<battery_soc, reservoir_level_m3, step, current_time,
                        standard_rooms_occupied, suite_rooms_occupied,
                        restaurant_customers, spa_customers,
                        lobby_customers>>]_vars
    /\ [][battery_soc' # battery_soc =>
            (call.pc = "update_battery" \/ IsReset)]_vars
    /\ [][reservoir_level_m3' # reservoir_level_m3 =>
            (call.pc \in {"inflow", "update_reservoir"} \/ IsReset)]_vars

\* _dispatch has just returned a result that charges the battery from
\* surplus hydro, and the battery still has the charge it had before
C22_Witness ==
    /\ call.pc = "update_battery"
    /\ RLt(call.dispatch.battery_kw, RZero)
    /\ RGt(call.dispatch.hydro_kw, RZero)
    /\ battery_soc = call.soc_in
    /\ reservoir_level_m3 = call.level_in

====
